---------------------------- MODULE Spec2Model ----------------------------
(***************************************************************************)
(* A model of InvasionRCT2.py: the sprite metadata loader, the sprite      *)
(* sheet cache, the SpriteAnimator (frame cycling, bounded random walk)    *)
(* and the DesktopPeep that wraps it or falls back to a bouncing square.   *)
(*                                                                         *)
(* Representation choices                                                  *)
(*  - A text field of the metadata file is a sequence of one-character     *)
(*    strings; int(field.strip()) is modelled by StripField/IsIntLiteral/  *)
(*    IntValue.                                                            *)
(*  - Positions and velocities are floats that are always multiples of     *)
(*    0.5 (move_speed is 1.0 or 0.5, start positions are integers or       *)
(*    halves).  They are stored as integers counting half pixels; Px(n)    *)
(*    converts a pixel count.                                              *)
(*  - scale_factor is a positive integer k, for which                      *)
(*    QPixmap.scaled(int(w*k), int(h*k), KeepAspectRatio) is exactly       *)
(*    w*k by h*k.                                                          *)
(*  - An exception that leaves an operation is recorded in raised; the     *)
(*    caller (a constructor or a Qt timer slot) does not catch it, so      *)
(*    nothing runs after it.                                               *)
(***************************************************************************)
EXTENDS Integers, Sequences, FiniteSets, TLC

VARIABLES
    nfo,          \* the metadata file: [exists, rows]
    sheet_files,  \* sheet numbers whose sprite_<n>.png exists and loads
    frame_args,   \* the <<base ids, frames_per_direction>> a caller may pass
    screen,       \* [width, height] in pixels, passed to setup and update
    clock,        \* int(time.time()*1000) as last read
    animator,     \* the SpriteAnimator's fields
    peep,         \* the DesktopPeep's fields
    pc,           \* how far the caller has got: which call comes next
    raised,       \* "none", or the exception that ended the run
    ticks,        \* number of update calls so far
    hist          \* history: arguments and counters the claims refer to

vars == <<nfo, sheet_files, frame_args, screen, clock, animator, peep, pc,
          raised, ticks, hist>>

(***************************************************************************)
(* Small arithmetic helpers.                                               *)
(***************************************************************************)
Min(a, b) == IF a < b THEN a ELSE b
Max(a, b) == IF a > b THEN a ELSE b
Px(n) == 2 * n

RECURSIVE SetMax(_)
SetMax(S) ==
    IF S = {} THEN 0
    ELSE LET x == CHOOSE y \in S : TRUE
         IN  Max(x, SetMax(S \ {x}))

(***************************************************************************)
(* Text fields and int().                                                  *)
(***************************************************************************)
DigitChars == <<"0", "1", "2", "3", "4", "5", "6", "7", "8", "9">>
IsDigit(c) == \E i \in 1..10 : DigitChars[i] = c
DigitValue(c) == (CHOOSE i \in 1..10 : DigitChars[i] = c) - 1

RECURSIVE StripLeft(_)
StripLeft(s) ==
    IF s # <<>> /\ Head(s) = " " THEN StripLeft(Tail(s)) ELSE s

RECURSIVE StripRight(_)
StripRight(s) ==
    IF s # <<>> /\ s[Len(s)] = " "
    THEN StripRight(SubSeq(s, 1, Len(s) - 1))
    ELSE s

StripField(s) == StripRight(StripLeft(s))

HasSign(s) == s # <<>> /\ Head(s) \in {"+", "-"}
Unsigned(s) == IF HasSign(s) THEN Tail(s) ELSE s

\* int(text) succeeds: optional sign, then one or more digits
IsIntLiteral(s) ==
    LET body == Unsigned(StripField(s))
    IN  /\ body # <<>>
        /\ \A i \in 1..Len(body) : IsDigit(body[i])

RECURSIVE DigitsValue(_)
DigitsValue(s) ==
    IF s = <<>> THEN 0
    ELSE 10 * DigitsValue(SubSeq(s, 1, Len(s) - 1)) + DigitValue(s[Len(s)])

IntValue(s) ==
    LET t == StripField(s)
        v == DigitsValue(Unsigned(t))
    IN  IF HasSign(t) /\ Head(t) = "-" THEN 0 - v ELSE v

StartsWithHash(s) == s # <<>> /\ Head(s) = "#"

(***************************************************************************)
(* SpriteInfo and the metadata loader.                                     *)
(***************************************************************************)
SpriteInfo(sheet_num, sprite_index, sprite_id, width, height, x_offset, y_offset, sheet_x, sheet_y) ==
    [sheet_num |-> sheet_num, sprite_index |-> sprite_index,
     sprite_id |-> sprite_id, width |-> width, height |-> height,
     x_offset |-> x_offset, y_offset |-> y_offset,
     sheet_x |-> sheet_x, sheet_y |-> sheet_y]

EmptyDict == [k \in {} |-> 0]
DictPut(d, k, v) == [x \in (DOMAIN d) \cup {k} |-> IF x = k THEN v ELSE d[x]]

MinFields == 11
MaxDimension == 4096

\* the row's fields that int() is applied to (1-based: row[0] is row[1] here)
ParsedFields == {1, 2, 3, 5, 6, 7, 8, 10, 11}

\* mutant of DimensionsOk: the bounds taken inclusive
DimensionsOkInclusive(width, height) ==
    /\ 0 <= width /\ width <= MaxDimension
    /\ 0 <= height /\ height <= MaxDimension

\* 0 < width < 4096 and 0 < height < 4096
DimensionsOk(width, height) ==
    /\ 0 < width /\ width < MaxDimension
    /\ 0 < height /\ height < MaxDimension

\* one iteration of the loop over the csv rows: the table after the row
LoadRow(details, row) ==
    IF row = <<>> \/ StartsWithHash(row[1]) THEN details
    ELSE IF Len(row) >= MinFields
    THEN IF \A i \in ParsedFields : IsIntLiteral(row[i])
         THEN LET width == IntValue(row[5])
                  height == IntValue(row[6])
                  sprite_id == IntValue(row[3])
              IN  IF DimensionsOk(width, height)
                  THEN DictPut(details, sprite_id,
                           SpriteInfo(IntValue(row[1]), IntValue(row[2]),
                                      sprite_id, width, height,
                                      IntValue(row[7]), IntValue(row[8]),
                                      IntValue(row[10]), IntValue(row[11])))
                  ELSE details
         ELSE details   \* int() raised: except: continue
    ELSE details

RECURSIVE LoadRows(_, _)
LoadRows(details, rows) ==
    IF rows = <<>> THEN details
    ELSE LoadRows(LoadRow(details, Head(rows)), Tail(rows))

\* load_sprite_info: the animator afterwards and the value returned
load_sprite_info(a, file) ==
    IF ~file.exists
    THEN [a |-> a, ret |-> FALSE]
    ELSE LET details == LoadRows(a.sprite_details, file.rows)
         IN  [a |-> [a EXCEPT !.sprite_details = details],
              ret |-> Cardinality(DOMAIN details) > 0]

(***************************************************************************)
(* The sprite sheet cache.  The sheet numbers are iterated as a Python set, *)
(* in an order the code does not fix; the loop returns False at the first  *)
(* sheet that does not load, keeping the sheets loaded before it.          *)
(***************************************************************************)
SheetNumbers(a) == {a.sprite_details[k].sheet_num : k \in DOMAIN a.sprite_details}

\* load_spritesheet: the set of (animator afterwards, value returned)
load_spritesheet(a, files) ==
    IF SheetNumbers(a) \subseteq files
    THEN {[a |-> [a EXCEPT !.spritesheets = @ \cup SheetNumbers(a)], ret |-> TRUE]}
    ELSE {[a |-> [a EXCEPT !.spritesheets = @ \cup loaded], ret |-> FALSE] :
             loaded \in SUBSET (SheetNumbers(a) \cap files)}

(***************************************************************************)
(* Pixmaps.  A pixmap is known by what it shows and by its size.           *)
(***************************************************************************)
NullPixmap == [kind |-> "null", sprite_id |-> 0, width |-> 0, height |-> 0]
SquarePixmap(size) == [kind |-> "square", sprite_id |-> 0, width |-> size, height |-> size]

\* the canvas cut from the sheet for one SpriteInfo, scaled
SpriteFrame(info, scale_factor) ==
    [kind |-> "sprite", sprite_id |-> info.sprite_id,
     width |-> info.width * scale_factor, height |-> info.height * scale_factor]

NumDirections == 4
Directions == 0..(NumDirections - 1)
NoFrames == [d \in Directions |-> <<>>]

\* mutant of FrameSpriteId: the stride of 4 between frames forgotten
FrameSpriteIdDense(base_sprite_id, dir_idx, i) == base_sprite_id + dir_idx + i

\* base_sprite_id + dir_idx + i*4
FrameSpriteId(base_sprite_id, dir_idx, i) == base_sprite_id + dir_idx + i * NumDirections

\* the inner loop body: the direction's list after frame offset i
AppendFrame(a, frames, base_sprite_id, dir_idx, i) ==
    LET sprite_id == FrameSpriteId(base_sprite_id, dir_idx, i)
    IN  IF sprite_id \notin DOMAIN a.sprite_details THEN frames
        ELSE IF a.sprite_details[sprite_id].sheet_num \notin a.spritesheets THEN frames
        ELSE Append(frames, SpriteFrame(a.sprite_details[sprite_id], a.scale_factor))

\* for i in range(frames_per_direction), from offset i on
RECURSIVE DirectionFrames(_, _, _, _, _, _)
DirectionFrames(a, frames, base_sprite_id, dir_idx, i, frames_per_direction) ==
    IF i >= frames_per_direction THEN frames
    ELSE DirectionFrames(a, AppendFrame(a, frames, base_sprite_id, dir_idx, i),
                         base_sprite_id, dir_idx, i + 1, frames_per_direction)

AllFrames(direction_frames) ==
    {direction_frames[d][j] : <<d, j>> \in
        {<<d, j>> \in Directions \X (1..SetMax({Len(direction_frames[e]) : e \in Directions})) :
            j <= Len(direction_frames[d])}}

MaxCanvasWidth(direction_frames) == SetMax({f.width : f \in AllFrames(direction_frames)})
MaxCanvasHeight(direction_frames) == SetMax({f.height : f \in AllFrames(direction_frames)})

SeqRange(s) == {s[i] : i \in 1..Len(s)}

\* load_direction_frames once random.choice has picked base_sprite_id
LoadFramesFrom(a, base_sprite_id, frames_per_direction) ==
    LET direction_frames ==
            [d \in Directions |->
                DirectionFrames(a, <<>>, base_sprite_id, d, 0, frames_per_direction)]
    IN  [a EXCEPT !.direction_frames = direction_frames,
                  !.max_canvas_width = MaxCanvasWidth(direction_frames),
                  !.max_canvas_height = MaxCanvasHeight(direction_frames)]

\* load_direction_frames: the set of (animator afterwards, exception, base)
\* random.choice of an empty list raises IndexError after the frames were reset
load_direction_frames(a, base_sprite_ids, frames_per_direction) ==
    IF base_sprite_ids = <<>>
    THEN {[a |-> [a EXCEPT !.direction_frames = NoFrames], raised |-> "IndexError", base |-> 0]}
    ELSE {[a |-> LoadFramesFrom(a, b, frames_per_direction), raised |-> "none", base |-> b] :
             b \in SeqRange(base_sprite_ids)}

(***************************************************************************)
(* SpriteAnimator: construction, direction, walking, update.               *)
(***************************************************************************)
FrameDuration == 100
MinDirectionDelay == 1000
MaxDirectionDelay == 3000

\* random.randint(lo, hi): the two ends of the range stand for it; empty
\* when lo > hi, where randint raises ValueError
RandInt(lo, hi) == IF lo > hi THEN {} ELSE {lo, hi}

DirectionDelays == RandInt(MinDirectionDelay, MaxDirectionDelay)

\* SpriteAnimator.__init__ (move_speed 1.0 is Px(1) half pixels a tick)
NewAnimator(scale_factor) ==
    [direction_frames |-> NoFrames,
     current_direction |-> 0,
     current_frame_index |-> 0,
     frame_duration |-> FrameDuration,
     last_frame_time |-> 0,
     pos_x |-> 0, pos_y |-> 0,
     velocity_x |-> 0, velocity_y |-> 0,
     move_speed |-> Px(1),
     is_moving |-> FALSE,
     next_direction_change_time |-> 0,
     max_canvas_width |-> 0, max_canvas_height |-> 0,
     sprite_details |-> EmptyDict,
     spritesheets |-> {},
     scale_factor |-> scale_factor]

\* mutant of set_direction: direction 3 given the velocity of direction 2
set_directionMirrored(a, direction) ==
    LET speed == a.move_speed
        b == [a EXCEPT !.current_direction = direction]
    IN  CASE direction = 0 -> [b EXCEPT !.velocity_x = speed, !.velocity_y = 0 - speed]
          [] direction = 1 -> [b EXCEPT !.velocity_x = speed, !.velocity_y = speed]
          [] direction = 2 -> [b EXCEPT !.velocity_x = 0 - speed, !.velocity_y = speed]
          [] direction = 3 -> [b EXCEPT !.velocity_x = 0 - speed, !.velocity_y = speed]
          [] OTHER -> b

set_direction(a, direction) ==
    LET speed == a.move_speed
        b == [a EXCEPT !.current_direction = direction]
    IN  CASE direction = 0 -> [b EXCEPT !.velocity_x = speed, !.velocity_y = 0 - speed]
          [] direction = 1 -> [b EXCEPT !.velocity_x = speed, !.velocity_y = speed]
          [] direction = 2 -> [b EXCEPT !.velocity_x = 0 - speed, !.velocity_y = speed]
          [] direction = 3 -> [b EXCEPT !.velocity_x = 0 - speed, !.velocity_y = 0 - speed]
          [] OTHER -> b

\* an optional argument: None, or a value (a position in half pixels)
None == [some |-> FALSE, v |-> 0]
Some(v) == [some |-> TRUE, v |-> v]

\* mutant of StartPositions: the random position drawn over the whole
\* screen, the bounding box not taken off
StartPositionsWholeScreen(start, screen_dim, max_canvas) ==
    IF start.some THEN {start.v}
    ELSE {Px(r) : r \in RandInt(0, screen_dim)}

\* the position an axis gets in setup_walking: the given one as it is, or
\* float(random.randint(0, screen - max_canvas)); empty when randint raises
StartPositions(start, screen_dim, max_canvas) ==
    IF start.some THEN {start.v}
    ELSE {Px(r) : r \in RandInt(0, screen_dim - max_canvas)}

\* setup_walking: the set of (animator afterwards, exception)
setup_walking(a, screen_width, screen_height, start_x, start_y, now) ==
    LET xs == StartPositions(start_x, screen_width, a.max_canvas_width)
        ys == StartPositions(start_y, screen_height, a.max_canvas_height)
    IN  IF xs = {} THEN {[a |-> a, raised |-> "ValueError"]}
        ELSE IF ys = {}
        THEN {[a |-> [a EXCEPT !.pos_x = x], raised |-> "ValueError"] : x \in xs}
        ELSE {[a |-> [set_direction([a EXCEPT !.pos_x = p[1], !.pos_y = p[2]], p[3])
                         EXCEPT !.is_moving = TRUE,
                                !.next_direction_change_time = now + p[4]],
               raised |-> "none"] :
                 p \in xs \X ys \X Directions \X DirectionDelays}

\* mutant of AdvanceFrame: the elapsed time compared with > instead of >=
AdvanceFrameStrict(a, current_time) ==
    LET frames == a.direction_frames[a.current_direction]
    IN  IF frames # <<>> /\ current_time - a.last_frame_time > a.frame_duration
        THEN [a EXCEPT !.current_frame_index = (@ + 1) % Len(frames),
                       !.last_frame_time = current_time]
        ELSE a

\* update, "Frame animation": at most one advance per call
AdvanceFrame(a, current_time) ==
    LET frames == a.direction_frames[a.current_direction]
    IN  IF frames # <<>> /\ current_time - a.last_frame_time >= a.frame_duration
        THEN [a EXCEPT !.current_frame_index = (@ + 1) % Len(frames),
                       !.last_frame_time = current_time]
        ELSE a

\* mutant of ChangeDirection: the next change scheduled from the time that
\* was due instead of from the current time
ChangeDirectionFromSchedule(a, current_time) ==
    IF current_time >= a.next_direction_change_time
    THEN {[(IF p[1] # a.current_direction THEN set_direction(a, p[1]) ELSE a)
              EXCEPT !.next_direction_change_time = @ + p[2]] :
             p \in Directions \X DirectionDelays}
    ELSE {a}

\* update, "Random direction change": the set of animators afterwards
ChangeDirection(a, current_time) ==
    IF current_time >= a.next_direction_change_time
    THEN {[(IF p[1] # a.current_direction THEN set_direction(a, p[1]) ELSE a)
              EXCEPT !.next_direction_change_time = current_time + p[2]] :
             p \in Directions \X DirectionDelays}
    ELSE {a}

\* update, "Move"
Move(a) == [a EXCEPT !.pos_x = @ + a.velocity_x, !.pos_y = @ + a.velocity_y]

\* mutant of Bounced: the upper bound of each axis compared with >= instead
\* of >, so that a position exactly on the far edge counts as out of bounds
BouncedInclusive(a, screen_width, screen_height) ==
    \/ a.pos_x < 0 \/ a.pos_x >= Px(screen_width - a.max_canvas_width)
    \/ a.pos_y < 0 \/ a.pos_y >= Px(screen_height - a.max_canvas_height)

\* update, the bounds test on the position after the move
Bounced(a, screen_width, screen_height) ==
    \/ a.pos_x < 0 \/ a.pos_x > Px(screen_width - a.max_canvas_width)
    \/ a.pos_y < 0 \/ a.pos_y > Px(screen_height - a.max_canvas_height)

\* update, the bounce: a fresh random direction, which may repeat
Bounce(a, screen_width, screen_height) ==
    IF Bounced(a, screen_width, screen_height)
    THEN {set_direction(a, d) : d \in Directions}
    ELSE {a}

\* mutant of ClampAxis: the lower bound left out
ClampAxisNoFloor(pos, screen_dim, max_canvas) == Min(pos, Px(screen_dim - max_canvas))

\* max(0, min(pos, screen - max_canvas))
ClampAxis(pos, screen_dim, max_canvas) == Max(0, Min(pos, Px(screen_dim - max_canvas)))

Clamp(a, screen_width, screen_height) ==
    [a EXCEPT !.pos_x = ClampAxis(@, screen_width, a.max_canvas_width),
              !.pos_y = ClampAxis(@, screen_height, a.max_canvas_height)]

\* SpriteAnimator.update: the set of animators afterwards
update(a, screen_width, screen_height, current_time) ==
    IF ~a.is_moving THEN {a}
    ELSE {Clamp(c, screen_width, screen_height) :
            c \in UNION {Bounce(Move(b), screen_width, screen_height) :
                    b \in ChangeDirection(AdvanceFrame(a, current_time), current_time)}}

\* get_current_frame: None, the frame, or IndexError when the index is past
\* the end of the current direction's list
get_current_frame(a) ==
    LET frames == a.direction_frames[a.current_direction]
    IN  IF frames = <<>> THEN [raised |-> "none", some |-> FALSE, frame |-> NullPixmap]
        ELSE IF a.current_frame_index >= Len(frames)
        THEN [raised |-> "IndexError", some |-> FALSE, frame |-> NullPixmap]
        ELSE [raised |-> "none", some |-> TRUE, frame |-> frames[a.current_frame_index + 1]]

(***************************************************************************)
(* DesktopPeep.                                                            *)
(***************************************************************************)
FallbackSize == 64
FallbackMaxX == 800
FallbackMaxY == 600
FallbackSpeeds == {-2, -1, 1, 2}
DefaultFramesPerDirection == 5
\* move_speed = 0.5, in half pixels a tick
PeepMoveSpeed == 1

NoPeep == [use_fallback |-> FALSE, x |-> 0, y |-> 0, dx |-> 0, dy |-> 0,
           pixmap |-> NullPixmap]

\* the fallback branch of DesktopPeep.__init__: the peeps it can build
FallbackPeeps(scale_factor) ==
    {[use_fallback |-> TRUE, x |-> p[1], y |-> p[2], dx |-> p[3], dy |-> p[4],
      pixmap |-> SquarePixmap(FallbackSize * scale_factor)] :
        p \in RandInt(0, FallbackMaxX) \X RandInt(0, FallbackMaxY)
              \X FallbackSpeeds \X FallbackSpeeds}

\* mutant of LoadAssets: "and" written for "or"
LoadAssetsBothFail(a, file, files) ==
    LET info == load_sprite_info(a, file)
    IN  {[a |-> sheets.a, fallback |-> ~info.ret /\ ~sheets.ret] :
            sheets \in load_spritesheet(info.a, files)}

\* not load_sprite_info(...) or not load_spritesheet(...), left to right:
\* the set of (animator afterwards, whether the peep falls back)
LoadAssets(a, file, files) ==
    LET info == load_sprite_info(a, file)
    IN  IF ~info.ret THEN {[a |-> info.a, fallback |-> TRUE]}
        ELSE {[a |-> sheets.a, fallback |-> ~sheets.ret] :
                 sheets \in load_spritesheet(info.a, files)}

\* DesktopPeep.__init__: the set of (animator, peep, exception)
DesktopPeepNew(base_sprite_id, file, files, scale_factor) ==
    UNION {IF loaded.fallback
           THEN {[a |-> loaded.a, peep |-> q, raised |-> "none"] :
                    q \in FallbackPeeps(scale_factor)}
           ELSE {[a |-> [f.a EXCEPT !.move_speed =
                            IF f.raised = "none" THEN PeepMoveSpeed ELSE @],
                  peep |-> NoPeep, raised |-> f.raised] :
                    f \in load_direction_frames(loaded.a, base_sprite_id,
                                                DefaultFramesPerDirection)} :
           loaded \in LoadAssets(NewAnimator(scale_factor), file, files)}

\* the fallback branch of DesktopPeep.update
FallbackUpdate(q, screen_width, screen_height) ==
    LET x == q.x + q.dx
        y == q.y + q.dy
    IN  [q EXCEPT !.x = x, !.y = y,
                  !.dx = IF x < 0 \/ x + FallbackSize > screen_width THEN 0 - @ ELSE @,
                  !.dy = IF y < 0 \/ y + FallbackSize > screen_height THEN 0 - @ ELSE @]

\* the animator branch of DesktopPeep.update, after animator.update:
\* the peep afterwards and the exception get_current_frame raised
ShowFrame(q, a) ==
    LET got == get_current_frame(a)
    IN  [peep |-> IF got.some THEN [q EXCEPT !.pixmap = got.frame] ELSE q,
         raised |-> got.raised]

(***************************************************************************)
(* The inputs the model draws from.                                        *)
(***************************************************************************)
MaxRows == 2       \* rows of a metadata file in SpecLoad
MaxTicks == 3      \* update calls of one run
StartClock == 5000 \* the clock when the run starts
LongStall == 1000  \* a late timer tick, in ms
TimerInterval == 16

TickDeltas == {TimerInterval, FrameDuration, LongStall}

Name == <<"x">>
N0 == <<"0">>
N1 == <<"1">>
N16 == <<"1", "6">>
N32 == <<"3", "2">>
N48 == <<"4", "8">>
N100 == <<"1", "0", "0">>
N101 == <<"1", "0", "1">>
N102 == <<"1", "0", "2">>
N103 == <<"1", "0", "3">>
N104 == <<"1", "0", "4">>

\* sheet_num, sprite_index, sprite_id, <unused>, width, height, x_offset,
\* y_offset, <unused>, sheet_x, sheet_y
Row(sheet_num, sprite_index, sprite_id, width, height) ==
    <<sheet_num, sprite_index, sprite_id, Name, width, height, N0, N0, Name, N0, N0>>

Row100 == Row(N0, N0, N100, N32, N32)
Row101 == Row(N1, N1, N101, N16, N48)
Row102 == Row(N0, N0, N102, N32, N32)
Row103 == Row(N0, N0, N103, N32, N32)
\* padded and signed numbers, and a twelfth field
Row104 == Row(N0, N0, N104, <<" ", "4", "0", " ">>, <<"+", "2", "0">>) \o <<Name>>
\* the id of Row100 again, on the other sheet
Row100Again == Row(N1, N0, N100, <<"6", "4">>, <<"8">>)
RowLargest == Row(N0, N0, N103, <<"4", "0", "9", "5">>, N1)
RowComment == [Row102 EXCEPT ![1] = <<"#", "0">>]
RowShort == SubSeq(Row102, 1, 10)
RowTooWide == Row(N0, N0, N102, <<"4", "0", "9", "6">>, N32)
RowZeroHeight == Row(N0, N0, N102, N32, N0)
RowNegativeHeight == Row(N0, N0, N102, N32, <<"-", "5">>)
RowBadIndex == Row(N0, Name, N102, N32, N32)
RowBadSheetY == [Row102 EXCEPT ![11] = <<>>]
RowEmpty == <<>>

RowPool == {Row100, Row101, Row104, Row100Again, RowLargest, RowComment, RowShort,
            RowTooWide, RowZeroHeight, RowNegativeHeight, RowBadIndex, RowBadSheetY,
            RowEmpty}

RECURSIVE SeqsUpTo(_, _)
SeqsUpTo(S, n) ==
    IF n = 0 THEN {<<>>}
    ELSE LET shorter == SeqsUpTo(S, n - 1)
         IN  shorter \cup {Append(q, x) : q \in shorter, x \in S}

MissingFile == [exists |-> FALSE, rows |-> <<>>]
File(rows) == [exists |-> TRUE, rows |-> rows]

\* a file with a frame for every direction from base 100 or 101
FullFile == File(<<Row100, Row101, Row102, Row103, Row104>>)

LoadFiles == {MissingFile} \cup {File(rows) : rows \in SeqsUpTo(RowPool, MaxRows)}
WalkFiles == {FullFile}
PeepFiles == {MissingFile, File(<<RowComment>>), File(<<Row100>>), FullFile}

SheetFileSets == {{}, {0}, {0, 1}}
ScaleFactors == {1, 2}
BaseIdLists == {<<>>, <<100>>, <<101, 100>>}
FrameCounts == {1, DefaultFramesPerDirection}
PeepBaseIdLists == {<<100>>, <<100, 101>>}

Screen(width, height) == [width |-> width, height |-> height]
WalkScreens == {Screen(800, 600), Screen(30, 40)}
PeepScreens == {Screen(800, 600), Screen(865, 665), Screen(20, 20)}

\* <<start_x, start_y>> of setup_walking: left out, or given (half pixels)
StartArgs == {<<None, None>>, <<Some(-7), None>>, <<None, Some(Px(5000))>>,
              <<Some(Px(5000)), Some(-7)>>}

NoHistory == [start_x |-> None, start_y |-> None, base |-> 0, n |-> 0,
              ret |-> FALSE, t0 |-> 0, advances |-> 0]

\* the history after an update that took the animator from a to b at time now
Advanced(a, b) == b.last_frame_time # a.last_frame_time
HistoryAfterUpdate(h, a, b, now) ==
    IF Advanced(a, b)
    THEN [h EXCEPT !.advances = @ + 1, !.t0 = IF h.advances = 0 THEN now ELSE @]
    ELSE h

(***************************************************************************)
(* The calls of the SpriteAnimator's interface.  The caller loads in the   *)
(* order DesktopPeep does, may skip a load, and starts walking once.       *)
(***************************************************************************)
LoadSpriteInfoCall ==
    /\ pc = "fresh" /\ raised = "none"
    /\ LET r == load_sprite_info(animator, nfo)
       IN  /\ animator' = r.a
           /\ hist' = [hist EXCEPT !.ret = r.ret]
    /\ pc' = "info"
    /\ UNCHANGED <<nfo, sheet_files, frame_args, screen, clock, peep, raised, ticks>>

LoadSpritesheetCall ==
    /\ pc = "info" /\ raised = "none"
    /\ \E r \in load_spritesheet(animator, sheet_files) :
          /\ animator' = r.a
          /\ hist' = [hist EXCEPT !.ret = r.ret]
    /\ pc' = "sheets"
    /\ UNCHANGED <<nfo, sheet_files, frame_args, screen, clock, peep, raised, ticks>>

LoadDirectionFramesCall ==
    /\ pc \in {"info", "sheets"} /\ raised = "none"
    /\ \E args \in frame_args :
          \E r \in load_direction_frames(animator, args[1], args[2]) :
             /\ animator' = r.a
             /\ raised' = r.raised
             /\ hist' = [hist EXCEPT !.base = r.base, !.n = args[2]]
    /\ pc' = "frames"
    /\ UNCHANGED <<nfo, sheet_files, frame_args, screen, clock, peep, ticks>>

SetupWalkingCall ==
    /\ pc \in {"fresh", "frames"} /\ raised = "none"
    /\ \E start \in StartArgs :
          \E r \in setup_walking(animator, screen.width, screen.height,
                                 start[1], start[2], clock) :
             /\ animator' = r.a
             /\ raised' = r.raised
             /\ hist' = [hist EXCEPT !.start_x = start[1], !.start_y = start[2]]
    /\ pc' = "walking"
    /\ UNCHANGED <<nfo, sheet_files, frame_args, screen, clock, peep, ticks>>

\* update returns at once, before it reads the clock, unless the peep walks
UpdateCall ==
    /\ raised = "none" /\ ticks < MaxTicks
    /\ IF ~animator.is_moving
       THEN UNCHANGED vars
       ELSE \E delta \in TickDeltas :
               \E b \in update(animator, screen.width, screen.height, clock + delta) :
                  /\ animator' = b
                  /\ clock' = clock + delta
                  /\ ticks' = ticks + 1
                  /\ hist' = HistoryAfterUpdate(hist, animator, b, clock + delta)
                  /\ UNCHANGED <<nfo, sheet_files, frame_args, screen, peep, pc, raised>>

(***************************************************************************)
(* The calls MultiPeepDesktopCanvas makes on one DesktopPeep: the          *)
(* constructor, setup, and update on every timer tick.                     *)
(***************************************************************************)
DesktopPeepInit ==
    /\ pc = "new" /\ raised = "none"
    /\ \E args \in frame_args :
          \E r \in DesktopPeepNew(args[1], nfo, sheet_files, animator.scale_factor) :
             /\ animator' = r.a
             /\ peep' = r.peep
             /\ raised' = r.raised
    /\ pc' = "constructed"
    /\ UNCHANGED <<nfo, sheet_files, frame_args, screen, clock, ticks, hist>>

PeepSetup ==
    /\ pc = "constructed" /\ raised = "none"
    /\ IF ~peep.use_fallback
       THEN \E r \in setup_walking(animator, screen.width, screen.height,
                                   None, None, clock) :
               /\ animator' = r.a
               /\ raised' = r.raised
       ELSE UNCHANGED <<animator, raised>>
    /\ pc' = "ready"
    /\ UNCHANGED <<nfo, sheet_files, frame_args, screen, clock, peep, ticks, hist>>

PeepUpdate ==
    /\ pc = "ready" /\ raised = "none" /\ ticks < MaxTicks
    /\ ticks' = ticks + 1
    /\ IF peep.use_fallback
       THEN /\ peep' = FallbackUpdate(peep, screen.width, screen.height)
            /\ UNCHANGED <<animator, clock, raised, hist>>
       ELSE \E delta \in TickDeltas :
               \E b \in update(animator, screen.width, screen.height, clock + delta) :
                  LET shown == ShowFrame(peep, b)
                  IN  /\ animator' = b
                      /\ clock' = clock + delta
                      /\ peep' = shown.peep
                      /\ raised' = shown.raised
                      /\ hist' = HistoryAfterUpdate(hist, animator, b, clock + delta)
    /\ UNCHANGED <<nfo, sheet_files, frame_args, screen, pc>>

(***************************************************************************)
(* Specifications.                                                         *)
(*   Spec          one DesktopPeep as the canvas drives it                 *)
(*   SpecAnimator  a SpriteAnimator driven through its own interface       *)
(*   SpecLoad      the loading calls alone, over many metadata files       *)
(***************************************************************************)
Init ==
    /\ nfo \in PeepFiles
    /\ sheet_files \in SheetFileSets
    /\ frame_args = PeepBaseIdLists \X {DefaultFramesPerDirection}
    /\ screen \in PeepScreens
    /\ clock = StartClock
    /\ animator = NewAnimator(1)
    /\ peep = NoPeep
    /\ pc = "new"
    /\ raised = "none"
    /\ ticks = 0
    /\ hist = NoHistory

Next == DesktopPeepInit \/ PeepSetup \/ PeepUpdate

Spec == Init /\ [][Next]_vars

InitAnimator ==
    /\ nfo \in WalkFiles
    /\ sheet_files = {0, 1}
    /\ frame_args = PeepBaseIdLists \X {DefaultFramesPerDirection}
    /\ screen \in WalkScreens
    /\ clock = StartClock
    /\ animator = NewAnimator(1)
    /\ peep = NoPeep
    /\ pc = "fresh"
    /\ raised = "none"
    /\ ticks = 0
    /\ hist = NoHistory

NextAnimator ==
    \/ LoadSpriteInfoCall
    \/ LoadSpritesheetCall
    \/ LoadDirectionFramesCall
    \/ SetupWalkingCall
    \/ UpdateCall

SpecAnimator == InitAnimator /\ [][NextAnimator]_vars

InitLoad ==
    /\ nfo \in LoadFiles
    /\ sheet_files \in SheetFileSets
    /\ frame_args = BaseIdLists \X FrameCounts
    /\ screen = Screen(800, 600)
    /\ clock = StartClock
    /\ animator \in {NewAnimator(k) : k \in ScaleFactors}
    /\ peep = NoPeep
    /\ pc = "fresh"
    /\ raised = "none"
    /\ ticks = 0
    /\ hist = NoHistory

NextLoad == LoadSpriteInfoCall \/ LoadSpritesheetCall \/ LoadDirectionFramesCall

SpecLoad == InitLoad /\ [][NextLoad]_vars

(***************************************************************************)
(* Shared vocabulary of the properties.                                    *)
(***************************************************************************)
MaxX == Px(screen.width - animator.max_canvas_width)
MaxY == Px(screen.height - animator.max_canvas_height)
CurrentFrames == animator.direction_frames[animator.current_direction]
UpdateStep == ticks' = ticks + 1

(***************************************************************************)
(* C1.  After update calls on a walking peep the position is inside        *)
(* [0, screen - max_canvas] on both axes.                                  *)
(***************************************************************************)
\* C1 as stated: for every screen size and bounding box, after update calls on
\* a walking peep, 0 <= pos_x <= screen_width - max_canvas_width and
\* 0 <= pos_y <= screen_height - max_canvas_height.
C1_PositionWithinScreen ==
    (animator.is_moving /\ ticks >= 1) =>
        /\ 0 <= animator.pos_x /\ animator.pos_x <= MaxX
        /\ 0 <= animator.pos_y /\ animator.pos_y <= MaxY

\* C1 amended: after one or more update calls on a walking peep,
\* 0 <= pos_x <= max(0, screen_width - max_canvas_width) and the same for y;
\* on an axis where the bounding box is larger than the screen the position
\* is 0, which is above screen - max_canvas.
C1_PositionClamped ==
    (animator.is_moving /\ ticks >= 1) =>
        /\ 0 <= animator.pos_x /\ animator.pos_x <= Max(0, MaxX)
        /\ 0 <= animator.pos_y /\ animator.pos_y <= Max(0, MaxY)
        /\ (MaxX < 0 => animator.pos_x = 0)
        /\ (MaxY < 0 => animator.pos_y = 0)

\* a walking peep whose bounding box is wider than the screen, started at an
\* explicit position right of the screen, has been updated and sits at x = 0
C1_Witness ==
    /\ animator.is_moving /\ ticks >= 1
    /\ MaxX < 0 /\ animator.max_canvas_width > 0
    /\ hist.start_x.some /\ hist.start_x.v > 0
    /\ animator.pos_x = 0

(***************************************************************************)
(* C2.  Frame cycling.                                                     *)
(***************************************************************************)
AllDirectionsHaveFrames == \A d \in Directions : animator.direction_frames[d] # <<>>

\* C2 as stated: with frames in the current direction, the number of advances
\* after T elapsed milliseconds equals floor(T / frame_duration), whatever the
\* spacing of the ticks (T counted from the first advance).
C2_AdvancesEqualElapsedFrames ==
    (animator.is_moving /\ hist.advances >= 1 /\ AllDirectionsHaveFrames) =>
        hist.advances - 1 = (clock - hist.t0) \div animator.frame_duration

\* C2 amended: one update advances the index at most once, exactly when the
\* current direction has frames and at least frame_duration ms have passed
\* since the last advance; the advance is (index + 1) mod frameCount and
\* restarts the wait at the time of that update.  So the advances after T ms
\* number at most floor(T / frame_duration), and fewer when ticks are late or
\* do not divide frame_duration.
C2_AdvanceAtMostOncePerDuration ==
    /\ [](hist.advances >= 1 =>
            hist.advances - 1 <= (clock - hist.t0) \div 100)
    /\ [][UpdateStep =>
            IF CurrentFrames # <<>> /\ clock' - animator.last_frame_time >= 100
            THEN /\ animator'.current_frame_index =
                        (animator.current_frame_index + 1) % Len(CurrentFrames)
                 /\ animator'.last_frame_time = clock'
            ELSE /\ animator'.current_frame_index = animator.current_frame_index
                 /\ animator'.last_frame_time = animator.last_frame_time]_vars

\* two advances in a direction with two frames have wrapped the index to 0,
\* while more than two frame durations have passed
C2_Witness ==
    /\ animator.is_moving /\ hist.advances = 2
    /\ Len(CurrentFrames) = 2 /\ animator.current_frame_index = 0
    /\ clock - hist.t0 > 200

(***************************************************************************)
(* C3.  The fallback square's bounce.                                      *)
(***************************************************************************)
FallbackInsideX(x) == 0 <= x /\ x + 64 <= screen.width
FallbackInsideY(y) == 0 <= y /\ y + 64 <= screen.height

\* C3 as stated: on every update of the fallback peep the sign of dx (dy)
\* flips exactly when the step crosses an x (y) bound of the screen, that is
\* takes the square from inside the bounds to outside them.  (Stated for the
\* screens that can hold the square; on a smaller one there is no inside.)
C3_FlipOncePerCrossing ==
    [][(peep.use_fallback /\ UpdateStep /\ screen.width >= 64 /\ screen.height >= 64) =>
          /\ (peep'.dx = 0 - peep.dx) <=>
                (FallbackInsideX(peep.x) /\ ~FallbackInsideX(peep'.x))
          /\ (peep'.dy = 0 - peep.dy) <=>
                (FallbackInsideY(peep.y) /\ ~FallbackInsideY(peep'.y))]_vars

(***************************************************************************)
(* C4.  setup_walking.                                                     *)
(***************************************************************************)
JustSetUp == pc = "walking" /\ ticks = 0

\* C4 as stated: setup_walking leaves the peep walking, with a direction in
\* 0..3, at a position whose bounding box fits on screen, whether the
\* position was drawn at random or given by the caller.
C4_SetupFitsOnScreen ==
    (JustSetUp /\ raised = "none") =>
        /\ animator.is_moving /\ animator.current_direction \in 0..3
        /\ 0 <= animator.pos_x /\ animator.pos_x <= MaxX
        /\ 0 <= animator.pos_y /\ animator.pos_y <= MaxY

\* C4 amended: a coordinate setup_walking draws at random lies in
\* [0, screen - max_canvas]; a coordinate the caller gives is stored as it
\* is, on screen or not; on return the peep is walking with a direction in
\* 0..3.  When a coordinate is to be drawn and the bounding box is larger
\* than the screen on that axis, setup_walking raises ValueError and the
\* peep is not walking.
C4_SetupPlacesPeep ==
    /\ (JustSetUp /\ raised = "none") =>
          /\ animator.is_moving /\ animator.current_direction \in 0..3
          /\ IF hist.start_x.some THEN animator.pos_x = hist.start_x.v
             ELSE 0 <= animator.pos_x /\ animator.pos_x <= MaxX
          /\ IF hist.start_y.some THEN animator.pos_y = hist.start_y.v
             ELSE 0 <= animator.pos_y /\ animator.pos_y <= MaxY
    /\ (JustSetUp /\ raised # "none") =>
          /\ raised = "ValueError" /\ ~animator.is_moving
          /\ \/ ~hist.start_x.some /\ MaxX < 0
             \/ ~hist.start_y.some /\ MaxY < 0

\* setup_walking has returned with a given x left of the screen and a drawn
\* y on it
C4_Witness ==
    /\ JustSetUp /\ raised = "none" /\ animator.is_moving
    /\ hist.start_x.some /\ animator.pos_x < 0
    /\ ~hist.start_y.some /\ animator.pos_y = MaxY /\ MaxY > 0

(***************************************************************************)
(* C5.  Scheduling of the random direction change.                         *)
(***************************************************************************)
\* C5: whenever next_direction_change_time is assigned its new value lies in
\* [now + 1000, now + 3000], now being the clock value the operation read;
\* so after setup_walking and after every update of a walking peep the
\* scheduled time is strictly later than that clock value.
C5_ChangeScheduledAhead ==
    /\ [](animator.is_moving => animator.next_direction_change_time > clock)
    /\ [][animator'.next_direction_change_time # animator.next_direction_change_time =>
            /\ animator'.next_direction_change_time >= clock' + 1000
            /\ animator'.next_direction_change_time <= clock' + 3000]_vars

\* an update has rescheduled the change: the scheduled time is later than any
\* time setup_walking can have set
C5_Witness ==
    /\ animator.is_moving /\ ticks >= 1
    /\ animator.next_direction_change_time > StartClock + 3000
    /\ animator.next_direction_change_time = clock + 1000

(***************************************************************************)
(* C6.  The metadata loader.                                               *)
(***************************************************************************)
\* a row the claim counts: not a comment, at least 11 fields, integers in
\* fields 0,1,2,4,5,6,7,9,10 and 0 < width < 4096, 0 < height < 4096
ValidRow(row) ==
    /\ row # <<>>
    /\ ~StartsWithHash(row[1])
    /\ Len(row) >= 11
    /\ \A i \in {1, 2, 3, 5, 6, 7, 8, 10, 11} : IsIntLiteral(row[i])
    /\ IntValue(row[5]) > 0 /\ IntValue(row[5]) < 4096
    /\ IntValue(row[6]) > 0 /\ IntValue(row[6]) < 4096

ValidRowNumbers == {i \in 1..Len(nfo.rows) : nfo.exists /\ ValidRow(nfo.rows[i])}

\* the last valid row that carries the sprite id
LastRowOf(sprite_id) ==
    nfo.rows[CHOOSE i \in ValidRowNumbers :
                /\ IntValue(nfo.rows[i][3]) = sprite_id
                /\ \A j \in ValidRowNumbers :
                      IntValue(nfo.rows[j][3]) = sprite_id => j <= i]

\* C6: the table load_sprite_info builds holds exactly the sprite ids of the
\* valid rows, each with the fields of the last valid row of that id; every
\* other row is skipped and the load goes on; the load returns True exactly
\* when there is a valid row, and False when the file is missing.
C6_TableIsValidRows ==
    pc # "fresh" =>
        /\ DOMAIN animator.sprite_details =
              {IntValue(nfo.rows[i][3]) : i \in ValidRowNumbers}
        /\ \A k \in DOMAIN animator.sprite_details :
              LET info == animator.sprite_details[k]
                  row == LastRowOf(k)
              IN  /\ info.sprite_id = k
                  /\ info.sheet_num = IntValue(row[1])
                  /\ info.sprite_index = IntValue(row[2])
                  /\ info.width = IntValue(row[5])
                  /\ info.height = IntValue(row[6])
                  /\ info.x_offset = IntValue(row[7])
                  /\ info.y_offset = IntValue(row[8])
                  /\ info.sheet_x = IntValue(row[10])
                  /\ info.sheet_y = IntValue(row[11])
        /\ (pc = "info" => (hist.ret <=> ValidRowNumbers # {}))
        /\ (pc = "info" /\ ~nfo.exists => ~hist.ret)

\* a file whose first row is malformed and whose second row is valid has
\* been loaded: the load went on past the bad row and reports success
C6_Witness ==
    /\ pc = "info" /\ hist.ret
    /\ Len(nfo.rows) = 2
    /\ nfo.rows[1] # <<>> /\ ~StartsWithHash(nfo.rows[1][1]) /\ ~ValidRow(nfo.rows[1])
    /\ ValidRow(nfo.rows[2])
    /\ Cardinality(DOMAIN animator.sprite_details) = 1

(***************************************************************************)
(* C7.  load_direction_frames.                                             *)
(***************************************************************************)
\* the frame offsets i in 0..n-1 whose sprite id base + d + 4*i is in the
\* table and on a loaded sheet
LoadableOffsets(d) ==
    {i \in 0..(hist.n - 1) :
        /\ hist.base + d + 4 * i \in DOMAIN animator.sprite_details
        /\ animator.sprite_details[hist.base + d + 4 * i].sheet_num
              \in animator.spritesheets}

\* the j-th smallest member of a set of numbers
NthSmallest(S, j) == CHOOSE i \in S : Cardinality({k \in S : k < i}) = j - 1

LoadedFrames ==
    UNION {{animator.direction_frames[d][j] :
               j \in 1..Len(animator.direction_frames[d])} : d \in 0..3}

\* C7: after load_direction_frames, direction d holds exactly one frame for
\* each loadable frame offset, in increasing offset, and nothing else; the
\* frame is the sprite of id base + d + 4*i at its table size times the scale
\* factor; max_canvas_width/height are the largest frame width/height, 0
\* with no frame.  The table of the single row id 100, 32x32, with base ids
\* [100] and n = 1 gives direction 0 one frame, directions 1-3 none, and
\* max_canvas 32x32.
C7_FramesAreLoadableSlots ==
    (pc = "frames" /\ raised = "none") =>
        /\ \A d \in 0..3 :
              LET frames == animator.direction_frames[d]
              IN  /\ Len(frames) = Cardinality(LoadableOffsets(d))
                  /\ \A j \in 1..Len(frames) :
                        LET sprite_id == hist.base + d + 4 * NthSmallest(LoadableOffsets(d), j)
                        IN  /\ frames[j].kind = "sprite"
                            /\ frames[j].sprite_id = sprite_id
                            /\ frames[j].width =
                                  animator.sprite_details[sprite_id].width * animator.scale_factor
                            /\ frames[j].height =
                                  animator.sprite_details[sprite_id].height * animator.scale_factor
        /\ \A f \in LoadedFrames :
              f.width <= animator.max_canvas_width /\ f.height <= animator.max_canvas_height
        /\ IF LoadedFrames = {}
           THEN animator.max_canvas_width = 0 /\ animator.max_canvas_height = 0
           ELSE /\ \E f \in LoadedFrames : f.width = animator.max_canvas_width
                /\ \E f \in LoadedFrames : f.height = animator.max_canvas_height
        /\ (/\ nfo.rows = <<Row100>> /\ 0 \in animator.spritesheets
            /\ hist.base = 100 /\ hist.n = 1 /\ animator.scale_factor = 1) =>
              /\ Len(animator.direction_frames[0]) = 1
              /\ \A d \in 1..3 : animator.direction_frames[d] = <<>>
              /\ animator.max_canvas_width = 32 /\ animator.max_canvas_height = 32

\* five frames a direction were asked for from base 100 and the table has
\* ids 100 and 104 on a loaded sheet: direction 0 got the frames of 100 and
\* 104 in that order, the slots of ids 108, 112, 116 are left out, and the
\* other directions are empty
C7_Witness ==
    /\ pc = "frames" /\ raised = "none" /\ hist.base = 100 /\ hist.n = 5
    /\ Len(animator.direction_frames[0]) = 2
    /\ animator.direction_frames[0][1].sprite_id = 100
    /\ animator.direction_frames[0][2].sprite_id = 104
    /\ \A d \in 1..3 : animator.direction_frames[d] = <<>>
    /\ animator.max_canvas_width > animator.max_canvas_height

(***************************************************************************)
(* C8.  When a peep falls back.                                            *)
(***************************************************************************)
\* a sheet the loaded metadata names does not load
SomeSheetFails ==
    \E k \in DOMAIN animator.sprite_details :
        animator.sprite_details[k].sheet_num \notin sheet_files

\* C8: a peep is built in fallback mode exactly when the metadata load fails
\* (no file, or no valid row) or some sheet the loaded metadata names fails
\* to load; and once built, use_fallback never changes.
C8_FallbackIffLoadFails ==
    /\ [](pc # "new" =>
            (peep.use_fallback <=> (ValidRowNumbers = {} \/ SomeSheetFails)))
    /\ [][pc # "new" => peep'.use_fallback = peep.use_fallback]_vars

\* the metadata loaded, one of its two sheets loads and the other does not:
\* the peep is in fallback and has been updated as the square
C8_Witness ==
    /\ pc = "ready" /\ ticks >= 2 /\ peep.use_fallback
    /\ ValidRowNumbers # {}
    /\ \E k \in DOMAIN animator.sprite_details :
          animator.sprite_details[k].sheet_num \in sheet_files
    /\ SomeSheetFails

(***************************************************************************)
(* C9.  Direction and velocity.                                            *)
(***************************************************************************)
\* C9: while the peep walks, the direction is one of 0..3 and the velocity
\* is the move speed times (+,-), (+,+), (-,+), (-,-) for 0, 1, 2, 3.
C9_VelocityFollowsDirection ==
    animator.is_moving =>
        LET v == <<animator.velocity_x, animator.velocity_y>>
            s == animator.move_speed
        IN  /\ animator.current_direction \in 0..3
            /\ s > 0
            /\ animator.current_direction = 0 => v = <<s, 0 - s>>
            /\ animator.current_direction = 1 => v = <<s, s>>
            /\ animator.current_direction = 2 => v = <<0 - s, s>>
            /\ animator.current_direction = 3 => v = <<0 - s, 0 - s>>

\* a peep walking in direction 3 after an update has rescheduled its
\* direction change
C9_Witness ==
    /\ animator.is_moving /\ ticks >= 1
    /\ animator.next_direction_change_time > StartClock + 3000
    /\ animator.current_direction = 3
    /\ animator.velocity_x < 0 /\ animator.velocity_y < 0

(***************************************************************************)
(* C10.  What the peep shows.                                              *)
(***************************************************************************)
\* C10 as stated: every peep that has been set up and updated shows either
\* the colored square (in fallback mode) or a sprite frame of its current
\* direction (otherwise); none shows neither.
C10_OneRepresentation ==
    (pc = "ready" /\ raised = "none" /\ ticks >= 1) =>
        \/ peep.use_fallback /\ peep.pixmap.kind = "square"
        \/ /\ ~peep.use_fallback /\ peep.pixmap.kind = "sprite"
           /\ \E j \in 1..Len(CurrentFrames) : CurrentFrames[j] = peep.pixmap

(***************************************************************************)
(* C11.  What one update may change.                                       *)
(***************************************************************************)
\* the position the peep has after walking one tick in direction d
Integrated(d) ==
    LET b == set_direction(animator, d)
    IN  <<animator.pos_x + b.velocity_x, animator.pos_y + b.velocity_y>>

OutOfBounds(p) == p[1] < 0 \/ p[1] > MaxX \/ p[2] < 0 \/ p[2] > MaxY

ClampedPosition(p) ==
    <<ClampAxis(p[1], screen.width, animator.max_canvas_width),
      ClampAxis(p[2], screen.height, animator.max_canvas_height)>>

DirectionChangeDue == clock' >= animator.next_direction_change_time

Heading(a) == <<a.current_direction, a.velocity_x, a.velocity_y>>

\* the move, bounce and clamp of one update that walks in direction d
WalkedFrom(d) ==
    LET p == Integrated(d)
    IN  IF OutOfBounds(p)
        THEN /\ animator'.current_direction \in Directions
             /\ Heading(animator') = Heading(set_direction(animator, animator'.current_direction))
             /\ <<animator'.pos_x, animator'.pos_y>> = ClampedPosition(p)
        ELSE /\ Heading(animator') = Heading(set_direction(animator, d))
             /\ <<animator'.pos_x, animator'.pos_y>> = p

\* C11: in one update on a walking peep, when the clock read has not reached
\* next_direction_change_time and the position plus the velocity is inside
\* [0, screen - max_canvas] on both axes, the direction, the velocity and
\* next_direction_change_time are unchanged and the position changes by
\* exactly the velocity; when the schedule is due a direction of 0..3 is
\* drawn first and the change is rescheduled; when the integrated position
\* is out of bounds the direction is drawn again from 0..3 (it may repeat)
\* and the position is clamped.
C11_UpdateChangesHeadingOnlyWhenDueOrOut ==
    [][(UpdateStep /\ animator.is_moving) =>
         IF DirectionChangeDue
         THEN /\ \E d \in Directions : WalkedFrom(d)
              /\ animator'.next_direction_change_time > clock'
         ELSE /\ WalkedFrom(animator.current_direction)
              /\ animator'.next_direction_change_time = animator.next_direction_change_time
              /\ (~OutOfBounds(Integrated(animator.current_direction)) =>
                     /\ Heading(animator') = Heading(animator)
                     /\ animator'.pos_x = animator.pos_x + animator.velocity_x
                     /\ animator'.pos_y = animator.pos_y + animator.velocity_y)]_vars

\* a peep started left of a screen its bounding box fits on is on the left
\* edge after two updates and heads west again: both updates took it out of
\* bounds, drew a direction and clamped the position
C11_Witness ==
    /\ animator.is_moving /\ ticks = 2
    /\ MaxX > 0 /\ MaxY > 0
    /\ hist.start_x = Some(-7)
    /\ animator.pos_x = 0
    /\ animator.velocity_x < 0

(***************************************************************************)
(* C12.  The frame index and the current direction's frame list.           *)
(***************************************************************************)
\* C12 as stated: after any sequence of updates on a sprite-backed peep,
\* direction changes included, and for frame sets whose directions hold
\* different numbers of frames, current_frame_index is strictly less than
\* the number of frames of the current direction whenever that direction has
\* a frame, and get_current_frame never indexes past the end of the list.
C12_FrameIndexWithinCurrentDirection ==
    (pc = "ready" /\ ~peep.use_fallback /\ animator.is_moving) =>
        /\ (CurrentFrames # <<>> => animator.current_frame_index < Len(CurrentFrames))
        /\ raised # "IndexError"

=============================================================================
